---- MODULE Spec2Model ----
(***************************************************************************)
(* Model of blitz.data.image.ImageData: the image stack with its reduction *)
(* caches, normalization cache, spatial mask and orientation flags.        *)
(*                                                                         *)
(* Arrays are records [shape, v]: shape is the numpy shape, v maps every   *)
(* index tuple (1-based) to a pixel value.  Pixel values are exact         *)
(* rationals <<n, d>> in lowest terms with d >= 0; d = 0 encodes the       *)
(* non-finite floats (<<1,0>> = inf, <<-1,0>> = -inf, <<0,0>> = nan).      *)
(* A value <<n, d, 2>> is the square root of n/d (numpy std).              *)
(* Optional values are <<>> (None) or <<x>>.                               *)
(***************************************************************************)
EXTENDS Integers, Sequences, FiniteSets, TLC

VARIABLES _image, _meta, _min, _max, _mean, _std, _mask,
          _transposed, _flipped_x, _flipped_y,
          _reduce_operation, _norm, _norm_operation,
          last_call, last_result

vars == <<_image, _meta, _min, _max, _mean, _std, _mask,
          _transposed, _flipped_x, _flipped_y,
          _reduce_operation, _norm, _norm_operation,
          last_call, last_result>>


None == <<>>
Some(x) == <<x>>
Get(o) == o[1]

----------------------------------------------------------------------------
(* Bounds *)

\* largest mask start coordinate the model follows (masks accumulate offsets)
MaxCoord == 2

----------------------------------------------------------------------------
(* Pixel arithmetic *)

Abs(n) == IF n < 0 THEN -n ELSE n
Sign(n) == IF n < 0 THEN -1 ELSE IF n > 0 THEN 1 ELSE 0

RECURSIVE Gcd(_, _)
Gcd(a, b) == IF b = 0 THEN a ELSE Gcd(b, a % b)

Rat(n, d) ==
    IF d = 0 THEN <<Sign(n), 0>>
    ELSE LET g == Gcd(Abs(n), Abs(d))
             s == IF d < 0 THEN -1 ELSE 1
         IN <<(s * n) \div g, (s * d) \div g>>

NaN == <<0, 0>>
IsNaN(a) == a[1] = 0 /\ a[2] = 0
IsInf(a) == a[1] # 0 /\ a[2] = 0

RLess(a, b) == a[1] * b[2] < b[1] * a[2]

RAdd(a, b) ==
    IF IsNaN(a) \/ IsNaN(b) THEN NaN
    ELSE IF IsInf(a) THEN (IF IsInf(b) /\ b[1] # a[1] THEN NaN ELSE a)
    ELSE IF IsInf(b) THEN b
    ELSE Rat(a[1] * b[2] + b[1] * a[2], a[2] * b[2])

RNeg(a) == <<-a[1], a[2]>>

\* numpy: a - b on floats
RSub(a, b) == RAdd(a, RNeg(b))

\* numpy: a * b on floats
RMul(a, b) ==
    IF IsNaN(a) \/ IsNaN(b) THEN NaN
    ELSE IF (IsInf(a) /\ b[1] = 0) \/ (IsInf(b) /\ a[1] = 0) THEN NaN
    ELSE Rat(a[1] * b[1], a[2] * b[2])

\* numpy: a / b on floats (division by zero gives inf or nan, no exception)
RDiv(a, b) ==
    IF IsNaN(a) \/ IsNaN(b) THEN NaN
    ELSE IF IsInf(a) /\ IsInf(b) THEN NaN
    ELSE IF IsInf(b) THEN <<0, 1>>
    ELSE IF IsInf(a) THEN <<a[1] * (IF b[1] < 0 THEN -1 ELSE 1), 0>>
    ELSE Rat(a[1] * b[2], a[2] * b[1])

RECURSIVE RSum(_)
RSum(s) == IF s = <<>> THEN <<0, 1>> ELSE RAdd(Head(s), RSum(Tail(s)))

\* numpy mean of a sequence of values; the mean of nothing is nan
RMean(s) == IF s = <<>> THEN NaN ELSE RDiv(RSum(s), <<Len(s), 1>>)

RECURSIVE RMin(_)
RMin(s) ==
    IF Len(s) = 1 THEN s[1]
    ELSE LET m == RMin(Tail(s)) IN IF RLess(m, Head(s)) THEN m ELSE Head(s)

RECURSIVE RMax(_)
RMax(s) ==
    IF Len(s) = 1 THEN s[1]
    ELSE LET m == RMax(Tail(s)) IN IF RLess(Head(s), m) THEN m ELSE Head(s)

\* numpy std: sqrt(mean(|x - mean(x)|^2)), kept as a tagged radicand
RStd(s) ==
    LET m == RMean(s)
        dev == [i \in 1..Len(s) |-> RMul(RSub(s[i], m), RSub(s[i], m))]
        var == RMean(dev)
    IN <<var[1], var[2], 2>>

----------------------------------------------------------------------------
(* Arrays *)

Idx3(f, h, w) == (1..f) \X (1..h) \X (1..w)
Idx2(h, w) == (1..h) \X (1..w)

\* a 3-D array from nested tuples of integers; all frames have the shape of
\* the first one
MkArr3(t) ==
    LET f == Len(t)
        h == Len(t[1])
        w == Len(t[1][1])
    IN [shape |-> <<f, h, w>>,
        v |-> [i \in Idx3(f, h, w) |-> <<t[i[1]][i[2]][i[3]], 1>>]]

\* Python slice(start, stop).indices(n) with unit step: negative indices count
\* from the end, both ends are clamped to 0..n
PyIndex(k, n) ==
    LET j == IF k < 0 THEN k + n ELSE k
    IN IF j < 0 THEN 0 ELSE IF j > n THEN n ELSE j

SliceStart(start, stop, n) == PyIndex(start, n)
SliceLen(start, stop, n) ==
    LET a == PyIndex(start, n)
        b == PyIndex(stop, n)
    IN IF b > a THEN b - a ELSE 0

\* image[:, x_start:x_stop, y_start:y_stop]
SliceMask(a, m) ==
    LET x0 == SliceStart(m[1], m[2], a.shape[2])
        h == SliceLen(m[1], m[2], a.shape[2])
        y0 == SliceStart(m[3], m[4], a.shape[3])
        w == SliceLen(m[3], m[4], a.shape[3])
    IN [shape |-> <<a.shape[1], h, w>>,
        v |-> [i \in Idx3(a.shape[1], h, w) |->
                  a.v[<<i[1], x0 + i[2], y0 + i[3]>>]]]

\* image[left:right+1]
SliceFrames(a, left, right) ==
    LET f0 == SliceStart(left, right + 1, a.shape[1])
        n == SliceLen(left, right + 1, a.shape[1])
    IN [shape |-> <<n, a.shape[2], a.shape[3]>>,
        v |-> [i \in Idx3(n, a.shape[2], a.shape[3]) |->
                  a.v[<<f0 + i[1], i[2], i[3]>>]]]

\* np.swapaxes(image, 1, 2)
SwapAxes(a) ==
    [shape |-> <<a.shape[1], a.shape[3], a.shape[2]>>,
     v |-> [i \in Idx3(a.shape[1], a.shape[3], a.shape[2]) |->
               a.v[<<i[1], i[3], i[2]>>]]]

\* np.flip(image, 1)
Flip1(a) ==
    [shape |-> a.shape,
     v |-> [i \in Idx3(a.shape[1], a.shape[2], a.shape[3]) |->
               a.v[<<i[1], a.shape[2] + 1 - i[2], i[3]>>]]]

\* np.flip(image, 2)
Flip2(a) ==
    [shape |-> a.shape,
     v |-> [i \in Idx3(a.shape[1], a.shape[2], a.shape[3]) |->
               a.v[<<i[1], i[2], a.shape[3] + 1 - i[3]>>]]]

\* the values of pixel (x, y) along the frame axis, as a sequence
Column(a, x, y) == [f \in 1..a.shape[1] |-> a.v[<<f, x, y>>]]

\* the fold of a sequence of values that a reduction kind names
FoldOf(kind, c) ==
    CASE kind = "min" -> RMin(c)
      [] kind = "max" -> RMax(c)
      [] kind = "mean" -> RMean(c)
      [] kind = "std" -> RStd(c)

\* a.min(0), a.max(0), a.mean(0), a.std(0): fold over the frame axis
Fold0(a, kind) ==
    [shape |-> <<a.shape[2], a.shape[3]>>,
     v |-> [i \in Idx2(a.shape[2], a.shape[3]) |->
               FoldOf(kind, Column(a, i[1], i[2]))]]

\* np.expand_dims(a2, axis=0)
ExpandDims(a2) ==
    [shape |-> <<1, a2.shape[1], a2.shape[2]>>,
     v |-> [i \in Idx3(1, a2.shape[1], a2.shape[2]) |-> a2.v[<<i[2], i[3]>>]]]

\* beta * a2
Scale(beta, a2) ==
    [shape |-> a2.shape,
     v |-> [i \in DOMAIN a2.v |-> RMul(beta, a2.v[i])]]

\* image - ref2 ("subtract") or image / ref2 ("divide"), ref2 broadcast over
\* the frame axis (shapes agree)
Broadcast(a, ref2, operation) ==
    [shape |-> a.shape,
     v |-> [i \in DOMAIN a.v |->
               IF operation = "subtract"
               THEN RSub(a.v[i], ref2.v[<<i[2], i[3]>>])
               ELSE RDiv(a.v[i], ref2.v[<<i[2], i[3]>>])]]

----------------------------------------------------------------------------
(* ImageData *)

ReduceKinds == {"min", "max", "mean", "std"}
NormKinds == {"subtract", "divide"}

\* the instance as a record of its fields
State ==
    [image |-> _image, min |-> _min, max |-> _max, mean |-> _mean,
     std |-> _std, mask |-> _mask, transposed |-> _transposed,
     flipped_x |-> _flipped_x, flipped_y |-> _flipped_y,
     reduce_operation |-> _reduce_operation, norm |-> _norm,
     norm_operation |-> _norm_operation]

\* ImageData.__init__
New(image) ==
    [image |-> image, min |-> None, max |-> None, mean |-> None,
     std |-> None, mask |-> None, transposed |-> FALSE,
     flipped_x |-> FALSE, flipped_y |-> FALSE,
     reduce_operation |-> "None", norm |-> None, norm_operation |-> "None"]

\* reset that forgets the normalization operation
reset_keeps_norm_operation(s) ==
    [s EXCEPT !.min = None, !.max = None, !.mean = None, !.std = None,
              !.mask = None, !.transposed = FALSE, !.flipped_x = FALSE,
              !.flipped_y = FALSE, !.reduce_operation = "None",
              !.norm = None]

\* reset that leaves the reduction marked active
reset_keeps_reduce_operation(s) ==
    [s EXCEPT !.min = None, !.max = None, !.mean = None, !.std = None,
              !.mask = None, !.transposed = FALSE, !.flipped_x = FALSE,
              !.flipped_y = FALSE, !.norm = None, !.norm_operation = "None"]

\* ImageData.reset
reset(s) ==
    [s EXCEPT !.min = None, !.max = None, !.mean = None, !.std = None,
              !.mask = None, !.transposed = FALSE, !.flipped_x = FALSE,
              !.flipped_y = FALSE, !.reduce_operation = "None",
              !.norm = None, !.norm_operation = "None"]

\* the cache field of a reduction kind
Cache(s, kind) ==
    CASE kind = "min" -> s.min
      [] kind = "max" -> s.max
      [] kind = "mean" -> s.mean
      [] kind = "std" -> s.std

\* a cached reduction is an object: arr is its contents and id tells it apart
\* from the array the same field held when the running call began (old is
\* the instance at that moment); a newly allocated array is never that one
NewId(old, kind) ==
    IF Cache(old, kind) = None THEN 0 ELSE 1 - Get(Cache(old, kind)).id

\* what the accessor yields when the selected cache is None (no array at all)
NoArray == [shape |-> <<>>, v |-> <<>>]

\* ImageData.image, lines 46-58: the volume before mask and orientation
BaseImage(s) ==
    LET reduced == IF s.reduce_operation \in ReduceKinds
                   THEN (IF Cache(s, s.reduce_operation) = None
                         THEN NoArray
                         ELSE Get(Cache(s, s.reduce_operation)).arr)
                   ELSE s.image
    IN IF s.norm # None THEN Get(s.norm) ELSE reduced

\* accessor that flips before it transposes
ImageFlipsFirst(s) ==
    LET i0 == BaseImage(s)
        i1 == IF s.mask # None THEN SliceMask(i0, s.mask) ELSE i0
        i2 == IF s.flipped_x THEN Flip1(i1) ELSE i1
        i3 == IF s.flipped_y THEN Flip2(i2) ELSE i2
        i4 == IF s.transposed THEN SwapAxes(i3) ELSE i3
    IN IF i0 = NoArray THEN NoArray ELSE i4

\* ImageData.image
Image(s) ==
    LET i0 == BaseImage(s)
        i1 == IF s.mask # None THEN SliceMask(i0, s.mask) ELSE i0
        i2 == IF s.transposed THEN SwapAxes(i1) ELSE i1
        i3 == IF s.flipped_x THEN Flip1(i2) ELSE i2
        i4 == IF s.flipped_y THEN Flip2(i3) ELSE i3
    IN IF i0 = NoArray THEN NoArray ELSE i4

\* ImageData.n_images
n_images(s) == s.image.shape[1]

\* ImageData.shape
shape(s) == <<Image(s).shape[2], Image(s).shape[3]>>

\* ImageData.is_single_image
is_single_image(s) == s.image.shape[1] = 1

\* ImageData.is_greyscale
is_greyscale(s) == Len(s.image.shape) = 3

\* a reduction that folds the first frame only
ReducedFirstFrame(image, kind) == ExpandDims(Fold0(SliceFrames(image, 0, 0), kind))

\* the array a reduction computes from the raw stack
Reduced(image, kind) == ExpandDims(Fold0(image, kind))

\* reduce whose max case folds with min
reduce_in_max_as_min(s, operation, old) ==
    LET entry == Some([id |-> NewId(old, operation),
                       arr |-> Reduced(s.image,
                                       IF operation = "max" THEN "min" ELSE operation)])
        s1 == CASE operation = "min" /\ s.min = None -> [s EXCEPT !.min = entry]
                [] operation = "max" /\ s.max = None -> [s EXCEPT !.max = entry]
                [] operation = "mean" /\ s.mean = None -> [s EXCEPT !.mean = entry]
                [] operation = "std" /\ s.std = None -> [s EXCEPT !.std = entry]
                [] OTHER -> s
    IN [s1 EXCEPT !.reduce_operation = operation]

\* reduce that recomputes a populated cache entry
reduce_in_recomputing(s, operation, old) ==
    LET entry == Some([id |-> NewId(old, operation),
                       arr |-> Reduced(s.image, operation)])
        s1 == CASE operation = "min" -> [s EXCEPT !.min = entry]
                [] operation = "max" -> [s EXCEPT !.max = entry]
                [] operation = "mean" -> [s EXCEPT !.mean = entry]
                [] operation = "std" -> [s EXCEPT !.std = entry]
                [] OTHER -> s
    IN [s1 EXCEPT !.reduce_operation = operation]

\* ImageData.reduce inside a call that began in old; an operation that is
\* none of the four kinds matches no case and is only stored
reduce_in(s, operation, old) ==
    LET entry == Some([id |-> NewId(old, operation),
                       arr |-> Reduced(s.image, operation)])
        s1 == CASE operation = "min" /\ s.min = None -> [s EXCEPT !.min = entry]
                [] operation = "max" /\ s.max = None -> [s EXCEPT !.max = entry]
                [] operation = "mean" /\ s.mean = None -> [s EXCEPT !.mean = entry]
                [] operation = "std" /\ s.std = None -> [s EXCEPT !.std = entry]
                [] OTHER -> s
    IN [s1 EXCEPT !.reduce_operation = operation]

\* reduce that forgets the mask
reduce_drops_mask(s, operation) ==
    [reduce_in(s, operation, s) EXCEPT !.mask = None]

\* ImageData.reduce
reduce(s, operation) == reduce_in(s, operation, s)

\* unravel that also drops the normalization cache
unravel_drops_norm(s) == [s EXCEPT !.reduce_operation = "None", !.norm = None]

\* ImageData.unravel
unravel(s) == [s EXCEPT !.reduce_operation = "None"]

\* transpose that sets the flag instead of negating it
transpose_sets(s) == [s EXCEPT !.transposed = TRUE]

\* ImageData.transpose
transpose(s) == [s EXCEPT !.transposed = ~s.transposed]

\* ImageData.flip_x
flip_x(s) == [s EXCEPT !.flipped_x = ~s.flipped_x]

\* flip_y that moves the other flip with it
flip_y_with_flip_x(s) ==
    [s EXCEPT !.flipped_y = ~s.flipped_y, !.flipped_x = ~s.flipped_x]

\* ImageData.flip_y
flip_y(s) == [s EXCEPT !.flipped_y = ~s.flipped_y]

\* normalize without the check for reduced data
NormAcceptsReduced(s) == FALSE

\* ImageData.normalize, line 112: the call is refused on reduced data
NormRejectsReduced(s) == s.reduce_operation # "None"

\* toggle-off that ignores force_calculation
NormTogglesOffForced(s, operation, force_calculation) ==
    s.norm_operation = operation

\* ImageData.normalize, line 115: the call switches the normalization off
NormTogglesOff(s, operation, force_calculation) ==
    s.norm_operation = operation /\ ~force_calculation

\* switching off that keeps the cache
NormClearedOperationOnly(s) == [s EXCEPT !.norm_operation = "None"]

\* ImageData.normalize, lines 116-117
NormCleared(s) == [s EXCEPT !.norm_operation = "None", !.norm = None]

\* normalize that computes from the cache of the previous operation
NormKeepsCache(s) == s

\* dropping the cache together with the operation
NormDroppedWithOperation(s) ==
    IF s.norm_operation # "None"
    THEN [s EXCEPT !.norm = None, !.norm_operation = "None"]
    ELSE s

\* ImageData.normalize, lines 119-120: a cache of the other operation (or a
\* forced recomputation) is dropped before the image is read
NormDropped(s) == IF s.norm_operation # "None" THEN [s EXCEPT !.norm = None] ELSE s

\* range mean that leaves the right end out
MeanRangeExclusive(image, beta, left, right) ==
    Scale(beta, Fold0(SliceFrames(image, left, right - 1), "mean"))

\* ImageData.normalize, line 124
MeanRange(image, beta, left, right) ==
    Scale(beta, Fold0(SliceFrames(image, left, right), "mean"))

\* ImageData.normalize, line 126; reference is the image of the reference
MeanRef(reference) == Fold0(reference, "mean")

\* ImageData.normalize: the state after the call and the value returned.
\* left, right are optional frame indices, reference the optional image of
\* the reference ImageData, beta a rational.
normalize(s, operation, beta, left, right, reference, force_calculation) ==
    IF NormRejectsReduced(s) THEN [s |-> s, ret |-> FALSE]
    ELSE IF NormTogglesOff(s, operation, force_calculation)
    THEN [s |-> NormCleared(s), ret |-> TRUE]
    ELSE
      LET s1 == NormDropped(s)
          image == Image(s1)
          has_range == left # None /\ right # None
          mean_range == MeanRange(image, beta, Get(left), Get(right))
          has_ref == reference # None
          mean_ref == MeanRef(Get(reference))
          norm1 == IF has_range
                   THEN Some(Broadcast(image, mean_range, operation))
                   ELSE s1.norm
          norm2 == IF has_ref
                   THEN Some(Broadcast(image, mean_ref, operation))
                   ELSE norm1
      IN IF has_ref /\ mean_ref.shape # <<image.shape[2], image.shape[3]>>
         THEN [s |-> s1, ret |-> FALSE]
         ELSE IF left = None /\ right = None /\ reference = None
         THEN [s |-> s1, ret |-> FALSE]
         ELSE [s |-> [s1 EXCEPT !.norm = norm2, !.norm_operation = operation],
               ret |-> TRUE]

\* int(x) for x = k/2: truncation toward zero
IntHalf(k) == IF k >= 0 THEN k \div 2 ELSE -((-k) \div 2)

Min2(a, b) == IF a < b THEN a ELSE b
Max2(a, b) == IF a > b THEN a ELSE b

\* mask bounds that replace the old mask instead of being shifted by its origin
MaskBoundsAbsolute(s, pos, size) ==
    <<Max2(0, IntHalf(pos[1])),
      Min2(s.image.shape[2], IntHalf(pos[1] + size[1])),
      Max2(0, IntHalf(pos[2])),
      Min2(s.image.shape[3], IntHalf(pos[2] + size[2]))>>

\* the bounds ImageData.mask stores for a region; pos and size are pairs of
\* floats given in halves (pos[1] = 3 is 1.5)
MaskBounds(s, pos, size) ==
    LET x_start == Max2(0, IntHalf(pos[1]))
        y_start == Max2(0, IntHalf(pos[2]))
        x_stop == Min2(s.image.shape[2], IntHalf(pos[1] + size[1]))
        y_stop == Min2(s.image.shape[3], IntHalf(pos[2] + size[2]))
    IN IF s.mask # None
       THEN <<x_start + s.mask[1], x_stop + s.mask[1],
              y_start + s.mask[3], y_stop + s.mask[3]>>
       ELSE <<x_start, x_stop, y_start, y_stop>>

\* mask that checks the transposition only
MaskRejectedIfTransposed(s) == s.transposed

\* whether ImageData.mask rejects the call
MaskRejected(s) == s.transposed \/ s.flipped_x \/ s.flipped_y

\* mask that keeps the reduction caches over the reset
MaskKeepsCaches(s) ==
    [reset(s) EXCEPT !.min = s.min, !.max = s.max, !.mean = s.mean,
                     !.std = s.std, !.reduce_operation = s.reduce_operation]

\* mask that resets without applying the reduction again
MaskResetOnly(s) == reset(s)

\* ImageData.mask, lines 163-165: the active reduction is kept over the reset
MaskReapplied(s) == reduce_in(reset(s), s.reduce_operation, s)

\* mask that crops the raw stack itself
mask_crops_raw(s, pos, size) ==
    IF MaskRejected(s) THEN s
    ELSE [MaskReapplied(s) EXCEPT !.mask = MaskBounds(s, pos, size),
                                  !.image = SliceMask(s.image, MaskBounds(s, pos, size))]

\* ImageData.mask; a mask is stored as <<x_start, x_stop, y_start, y_stop>>
mask(s, pos, size) ==
    IF MaskRejected(s) THEN s
    ELSE [MaskReapplied(s) EXCEPT !.mask = MaskBounds(s, pos, size)]

\* the value ImageData.mask returns: the bare return of line 151 when the
\* call is rejected, the end of the body otherwise
mask_ret(s, pos, size) == IF MaskRejected(s) THEN "None" ELSE "None"

----------------------------------------------------------------------------
(* Inputs *)

\* the stacks an instance is constructed from: frames x rows x columns
Stacks ==
    { MkArr3(<< << <<1, 2, 3>>, <<5, 6, 7>>, <<9, 3, 0>> >>,
                << <<3, 2, 5>>, <<1, 6, 2>>, <<4, 7, 0>> >> >>) }

\* per-frame metadata records, parallel to the frames
MetaOf(image) == [f \in 1..image.shape[1] |-> [file_name |-> f]]

\* the images of the reference instances handed to normalize: one with the
\* frame shape of the stacks, one with another shape
RefGood == MkArr3(<< << <<2, 1, 4>>, <<1, 3, 0>>, <<5, 1, 2>> >> >>)
RefBad == MkArr3(<< << <<2, 1>>, <<1, 3>> >> >>)

\* the arguments of a normalize call
NormArg(operation, beta, left, right, reference, force_calculation) ==
    [operation |-> operation, beta |-> beta, left |-> left, right |-> right,
     reference |-> reference, force_calculation |-> force_calculation]

\* left/right pairs: none, incomplete, all frames
Ranges == { <<None, None>>, <<Some(0), None>>, <<Some(0), Some(1)>> }

NormArgs ==
    { NormArg(op, <<1, 2>>, lr[1], lr[2], ref, force) :
        op \in NormKinds, lr \in Ranges,
        ref \in {None, Some(RefGood), Some(RefBad)}, force \in BOOLEAN }

\* regions (pos, size) in halves of a pixel
Roi(pos, size) == [pos |-> pos, size |-> size]
Rois == { Roi(<<2, 0>>, <<4, 4>>) }

----------------------------------------------------------------------------
(* Operations *)

Assign(s) ==
    /\ _image' = s.image
    /\ _meta' = _meta
    /\ _min' = s.min
    /\ _max' = s.max
    /\ _mean' = s.mean
    /\ _std' = s.std
    /\ _mask' = s.mask
    /\ _transposed' = s.transposed
    /\ _flipped_x' = s.flipped_x
    /\ _flipped_y' = s.flipped_y
    /\ _reduce_operation' = s.reduce_operation
    /\ _norm' = s.norm
    /\ _norm_operation' = s.norm_operation

Called(name, result) == last_call' = name /\ last_result' = result

Init ==
    \E image \in Stacks :
        /\ _image = image
        /\ _meta = MetaOf(image)
        /\ _min = None /\ _max = None /\ _mean = None /\ _std = None
        /\ _mask = None
        /\ _transposed = FALSE /\ _flipped_x = FALSE /\ _flipped_y = FALSE
        /\ _reduce_operation = "None"
        /\ _norm = None
        /\ _norm_operation = "None"
        /\ last_call = "__init__"
        /\ last_result = "None"

Reset == Assign(reset(State)) /\ Called("reset", "None")

ReduceOn(kinds) == \E operation \in kinds :
    Assign(reduce(State, operation)) /\ Called("reduce", "None")

Unravel == Assign(unravel(State)) /\ Called("unravel", "None")

NormalizeOn(args) == \E a \in args :
    LET r == normalize(State, a.operation, a.beta, a.left, a.right,
                       a.reference, a.force_calculation)
    IN Assign(r.s) /\ Called("normalize", IF r.ret THEN "True" ELSE "False")

MaskOn(rois) == \E roi \in rois :
    LET s == mask(State, roi.pos, roi.size)
    IN /\ s.mask # None => s.mask[1] <= MaxCoord /\ s.mask[3] <= MaxCoord
       /\ Assign(s)
       /\ Called("mask", mask_ret(State, roi.pos, roi.size))

Transpose == Assign(transpose(State)) /\ Called("transpose", "None")

FlipX == Assign(flip_x(State)) /\ Called("flip_x", "None")

FlipY == Assign(flip_y(State)) /\ Called("flip_y", "None")

Reduce == ReduceOn({"mean"})
Normalize == NormalizeOn(NormArgs)
Mask == MaskOn(Rois)

Next ==
    \/ Reset
    \/ Reduce
    \/ Unravel
    \/ Normalize
    \/ Mask
    \/ Transpose
    \/ FlipX
    \/ FlipY

Spec == Init /\ [][Next]_vars

\* the same operations with every reduction kind and one normalize call,
\* by a reference image
NormArgsFew == { NormArg("subtract", <<1, 2>>, None, None, Some(RefGood), FALSE) }

ReduceAll == ReduceOn(ReduceKinds)
NormalizeFew == NormalizeOn(NormArgsFew)

NextReduce ==
    \/ Reset
    \/ ReduceAll
    \/ Unravel
    \/ NormalizeFew
    \/ Mask
    \/ Transpose
    \/ FlipX
    \/ FlipY

SpecReduce == Init /\ [][NextReduce]_vars

\* the same operations with several regions: two inside at an offset in both
\* axes, one larger than the image, one at a fractional and negative position
RoisMask ==
    { Roi(<<2, 2>>, <<4, 4>>), Roi(<<2, 2>>, <<2, 2>>), Roi(<<0, 0>>, <<9, 9>>),
      Roi(<<-1, 1>>, <<3, 2>>) }

NormArgsRange == { NormArg("divide", <<1, 2>>, Some(0), Some(1), None, FALSE) }

NormalizeRange == NormalizeOn(NormArgsRange)
MaskMany == MaskOn(RoisMask)

NextMask ==
    \/ Reset
    \/ Reduce
    \/ Unravel
    \/ NormalizeRange
    \/ MaskMany
    \/ Transpose
    \/ FlipX
    \/ FlipY

SpecMask == Init /\ [][NextMask]_vars

----------------------------------------------------------------------------
(* Properties *)

\* normalize called on instance s with the arguments a
NormalizeWith(s, a) ==
    normalize(s, a.operation, a.beta, a.left, a.right, a.reference,
              a.force_calculation)

\* the instance apart from the active reduction
ExceptReduceOperation(s) == [s EXCEPT !.reduce_operation = "None"]

\* regions offered to mask in the properties: inside, partly outside, wholly
\* outside, at fractional and negative positions
RoisAll ==
    { Roi(pos, size) : pos \in { <<2, 0>>, <<0, 0>>, <<1, 3>>, <<-3, 2>>, <<8, 8>> },
                       size \in { <<4, 4>>, <<1, 3>>, <<9, 9>> } }

\* complete in-bounds frame ranges left <= right of instance s
InBoundsRanges(s) ==
    { <<Some(l), Some(r)>> : l \in 0..(n_images(s) - 1), r \in 0..(n_images(s) - 1) }
        \ { <<Some(l), Some(r)>> : l \in 1..(n_images(s) - 1), r \in 0..0 }

\* C1: the base volume of the accessor is the cache entry of the active
\* reduction if a reduction is active, otherwise the normalization cache if
\* one is set, otherwise the raw stack
C1_BaseVolume ==
    BaseImage(State) =
        IF _reduce_operation \in ReduceKinds
        THEN Get(Cache(State, _reduce_operation)).arr
        ELSE IF _norm # None THEN Get(_norm) ELSE _image

\* C2: reset leaves the instance as freshly constructed from the loaded
\* stack, so the current image is that stack again
C2_ResetIsFresh ==
    /\ reset(State) = New(_image)
    /\ _image \in Stacks
    /\ Image(reset(State)) = _image
    /\ last_call = "reset" => State = New(_image) /\ Image(State) = _image

C2_Witness ==
    /\ _mask # None /\ _norm # None /\ _norm_operation # "None"
    /\ _mean # None /\ _transposed /\ _flipped_x
    /\ Image(State) # _image
    /\ Image(reset(State)) = _image

\* C3: no state has both an active reduction and an active normalization
C3_MutuallyExclusive ==
    ~(_reduce_operation # "None" /\ (_norm # None \/ _norm_operation # "None"))

\* what normalizing the raw stack as stored gives for the arguments a
NormOfRaw(image, a) ==
    LET ref == IF a.reference # None
           THEN MeanRef(Get(a.reference))
           ELSE MeanRange(image, a.beta, Get(a.left), Get(a.right))
    IN Broadcast(image, ref, a.operation)

\* C4: a normalize call that computes a cache computes it from the raw stack
\* as stored, whatever the mask and the orientation flags, so the cache has
\* the shape of the raw stack
C4_NormalizesRaw ==
    \A a \in NormArgs :
        LET r == NormalizeWith(State, a)
        IN (r.ret /\ r.s.norm_operation = a.operation
                  /\ ((a.left # None /\ a.right # None) \/ a.reference # None))
              => /\ r.s.norm # None
                 /\ Get(r.s.norm).shape = _image.shape
                 /\ Get(r.s.norm) = NormOfRaw(_image, a)

\* C5: a normalize call that returns False leaves every field unchanged
C5_RejectedNormalizeIsNoOp ==
    \A a \in NormArgs :
        LET r == NormalizeWith(State, a)
        IN ~r.ret => r.s = State

\* C6: while a reduction is active, normalize returns False and changes
\* nothing, whatever its arguments
C6_NormalizeRefusedWhileReduced ==
    _reduce_operation # "None" =>
        \A a \in NormArgs :
            LET r == NormalizeWith(State, a)
            IN ~r.ret /\ r.s = State

C6_Witness ==
    /\ last_call = "normalize" /\ last_result = "False"
    /\ _reduce_operation = "mean"
    /\ _norm # None /\ _mask # None

\* C7: while an orientation flag is set, mask changes no field
C7_MaskRefusedWhileOriented ==
    (_transposed \/ _flipped_x \/ _flipped_y) =>
        \A roi \in RoisAll : mask(State, roi.pos, roi.size) = State

C7_Witness ==
    /\ last_call = "mask"
    /\ _flipped_y /\ ~_transposed /\ ~_flipped_x
    /\ _mask # None /\ _norm # None

\* C8: with no reduction and no normalization active, normalize over an
\* in-bounds range followed by the same call without force restores the
\* current image and leaves normalization off with no cache
C8_ToggleLaw ==
    (_reduce_operation = "None" /\ _norm_operation = "None") =>
        \A op \in NormKinds, beta \in { <<1, 2>>, <<2, 1>> },
           lr \in InBoundsRanges(State) :
            LET a == NormArg(op, beta, lr[1], lr[2], None, FALSE)
                r1 == NormalizeWith(State, a)
                r2 == NormalizeWith(r1.s, a)
            IN /\ r1.ret /\ r1.s.norm_operation = op
               /\ Image(r2.s) = Image(State)
               /\ r2.s.norm_operation = "None"
               /\ r2.s.norm = None

C8_Witness ==
    /\ last_call = "normalize" /\ last_result = "True"
    /\ _norm_operation = "None" /\ _norm = None
    /\ _reduce_operation = "None"
    /\ _mask # None /\ _transposed

\* C9: unravel changes the active reduction only, and with no reduction
\* active reduce followed by unravel restores the current image
C9_UnravelRestores ==
    /\ ExceptReduceOperation(unravel(State)) = ExceptReduceOperation(State)
    /\ unravel(State).reduce_operation = "None"
    /\ _reduce_operation = "None" =>
           \A kind \in ReduceKinds :
               Image(unravel(reduce(State, kind))) = Image(State)

C9_Witness ==
    /\ last_call = "unravel"
    /\ _mean # None /\ _reduce_operation = "None"
    /\ _norm # None /\ _mask # None

\* C10: a populated reduction cache entry stays the very same array over
\* every call but an accepted mask or a reset, and reduce of a populated kind
\* only marks it active
C10_CachedOnce ==
    [][ \A kind \in ReduceKinds :
          Cache(State, kind) # None =>
            /\ reduce(State, kind) = [State EXCEPT !.reduce_operation = kind]
            /\ last_call' \notin {"reset", "mask"} =>
                   Cache(State, kind)' = Cache(State, kind) ]_vars

C10_Witness ==
    /\ last_call = "reduce"
    /\ _min # None /\ _max # None /\ _mean # None /\ _std # None
    /\ _reduce_operation = "std"

\* C11: each orientation call applied twice leaves every field and the
\* current image as they were
C11_OrientationInvolutions ==
    /\ transpose(transpose(State)) = State
    /\ flip_x(flip_x(State)) = State
    /\ flip_y(flip_y(State)) = State
    /\ Image(transpose(transpose(State))) = Image(State)
    /\ Image(flip_x(flip_x(State))) = Image(State)
    /\ Image(flip_y(flip_y(State))) = Image(State)
    /\ Image(transpose(State)).shape =
           <<Image(State).shape[1], Image(State).shape[3], Image(State).shape[2]>>

C11_Witness ==
    /\ last_call = "transpose" /\ ~_transposed
    /\ _flipped_x /\ _mask # None /\ _norm # None

\* regions at whole pixels: position (p, q) and size (s, t)
RoiPixels(p, q, s, t) == Roi(<<2 * p, 2 * q>>, <<2 * s, 2 * t>>)

\* C12: with a mask of origin (a, b) and no orientation flag, masking a
\* whole-pixel region (p, q), (s, t) that lies inside the displayed image
\* stores rows [a+p, a+p+s) and columns [b+q, b+q+t)
C12_MasksCompose ==
    (_mask # None /\ ~MaskRejected(State)) =>
        \A p \in 0..2, q \in 0..2, s \in 1..3, t \in 1..3 :
            (p + s <= shape(State)[1] /\ q + t <= shape(State)[2]) =>
                mask(State, RoiPixels(p, q, s, t).pos, RoiPixels(p, q, s, t).size).mask
                    = <<_mask[1] + p, _mask[1] + p + s,
                        _mask[3] + q, _mask[3] + q + t>>

\* mask(pos=(1,1), size=(2,2)) then mask(pos=(1,1), size=(1,1)) on the
\* (2,3,3) stack: rows [2,3), columns [2,3)
C12_Witness ==
    /\ last_call = "mask"
    /\ _mask = <<2, 3, 2, 3>>
    /\ Image(State).shape = <<2, 1, 1>>
    /\ Image(State).v[<<1, 1, 1>>] = _image.v[<<1, 3, 3>>]

\* the raw rows and the raw columns (0-based) that a stored mask m shows
CropRows(s, m) ==
    { x \in 0..(s.image.shape[2] - 1) :
        /\ SliceStart(m[1], m[2], s.image.shape[2]) <= x
        /\ x < SliceStart(m[1], m[2], s.image.shape[2])
                 + SliceLen(m[1], m[2], s.image.shape[2]) }

CropCols(s, m) ==
    { y \in 0..(s.image.shape[3] - 1) :
        /\ SliceStart(m[3], m[4], s.image.shape[3]) <= y
        /\ y < SliceStart(m[3], m[4], s.image.shape[3])
                 + SliceLen(m[3], m[4], s.image.shape[3]) }

\* C13: an accepted mask call made while a mask is active shows rows and
\* columns of the previous crop only, for every region
C13_MasksNeverEnlarge ==
    (_mask # None /\ ~MaskRejected(State)) =>
        \A roi \in RoisAll :
            LET m == mask(State, roi.pos, roi.size).mask
            IN /\ CropRows(State, m) \subseteq CropRows(State, _mask)
               /\ CropCols(State, m) \subseteq CropCols(State, _mask)

\* C14: an accepted mask keeps the active reduction (the same kind with its
\* cache populated, or none) and leaves no normalization cache or operation
C14_MaskKeepsReduction ==
    ~MaskRejected(State) =>
        \A roi \in RoisAll :
            LET s2 == mask(State, roi.pos, roi.size)
            IN /\ s2.reduce_operation = _reduce_operation
               /\ _reduce_operation \in ReduceKinds =>
                      Cache(s2, _reduce_operation) # None
               /\ s2.norm = None
               /\ s2.norm_operation = "None"

C14_Witness ==
    /\ last_call = "mask" /\ _mask # None
    /\ _reduce_operation = "std" /\ _std # None
    /\ _min = None /\ _max = None /\ _mean = None
    /\ _norm = None /\ _norm_operation = "None"

\* C15: after a normalize call, the value returned is True exactly when a
\* normalization operation is active
C15_ReturnsActive ==
    last_call = "normalize" =>
        (last_result = "True" <=> _norm_operation # "None")

\* C15 as amended: a call that returns True either switched an active
\* normalization off (no operation and no cache afterwards) or marked the
\* requested operation active; a call that returns False leaves the marked
\* operation as it was
C15_ReturnsAccepted ==
    \A a \in NormArgs :
        LET r == NormalizeWith(State, a)
            toggles == /\ _reduce_operation = "None"
                       /\ _norm_operation = a.operation
                       /\ ~a.force_calculation
        IN /\ (r.ret /\ toggles) =>
                  r.s.norm_operation = "None" /\ r.s.norm = None
           /\ (r.ret /\ ~toggles) => r.s.norm_operation = a.operation
           /\ ~r.ret => r.s.norm_operation = _norm_operation
           /\ toggles => r.ret

C15_Witness ==
    /\ last_call = "normalize" /\ last_result = "True"
    /\ _norm_operation = "None" /\ _norm = None
    /\ _mask = None /\ ~_transposed /\ ~_flipped_x /\ ~_flipped_y

\* C16: while a reduction is active the current image has one frame
C16_ReducedHasOneFrame ==
    _reduce_operation # "None" => Image(State).shape[1] = 1

\* the kinds whose cache entry is populated
Populated(s) == {kind \in ReduceKinds : Cache(s, kind) # None}

\* C17: at most one reduction cache entry is populated and at most one
\* normalization cache exists
C17_AtMostOneCache ==
    /\ Cardinality(Populated(State)) <= 1
    /\ Len(_norm) <= 1

\* C17 as amended: each kind has at most one cached volume, the one-frame
\* fold of its own kind over the raw stack, several kinds may be populated at
\* once, and at most one normalization cache exists
C17_OneCachePerKind ==
    /\ \A kind \in Populated(State) :
           /\ Len(Cache(State, kind)) = 1
           /\ Get(Cache(State, kind)).arr.shape =
                  <<1, _image.shape[2], _image.shape[3]>>
           /\ \A x \in 1.._image.shape[2], y \in 1.._image.shape[3] :
                  Get(Cache(State, kind)).arr.v[<<1, x, y>>] =
                      FoldOf(kind, Column(_image, x, y))
    /\ Len(_norm) <= 1

C17_Witness ==
    /\ Populated(State) = ReduceKinds
    /\ _norm # None
    /\ Get(_min).arr # Get(_max).arr

\* the pixel of the base volume that the current image shows at (f, i, j):
\* undo flip-y and flip-x on the shown axes, then the swap, then the mask
\* offset
ShownPixel(s, f, i, j) ==
    LET base == BaseImage(s)
        sh == Image(s).shape
        x0 == IF s.mask # None
              THEN SliceStart(s.mask[1], s.mask[2], base.shape[2]) ELSE 0
        y0 == IF s.mask # None
              THEN SliceStart(s.mask[3], s.mask[4], base.shape[3]) ELSE 0
        i1 == IF s.flipped_x THEN sh[2] + 1 - i ELSE i
        j1 == IF s.flipped_y THEN sh[3] + 1 - j ELSE j
        r == IF s.transposed THEN j1 ELSE i1
        c == IF s.transposed THEN i1 ELSE j1
    IN base.v[<<f, x0 + r, y0 + c>>]

\* the rows and columns the mask leaves of the base volume
MaskedExtent(s) ==
    LET base == BaseImage(s)
    IN IF s.mask # None
       THEN <<SliceLen(s.mask[1], s.mask[2], base.shape[2]),
              SliceLen(s.mask[3], s.mask[4], base.shape[3])>>
       ELSE <<base.shape[2], base.shape[3]>>

\* C18: the current image is the base volume sliced by the mask (frame axis
\* whole), then transposed, then reversed along the first shown axis if
\* flipped-x, then along the second if flipped-y, as the flags stand
C18_ViewStagesInOrder ==
    LET img == Image(State)
        ext == MaskedExtent(State)
    IN /\ img.shape = <<BaseImage(State).shape[1],
                        IF _transposed THEN ext[2] ELSE ext[1],
                        IF _transposed THEN ext[1] ELSE ext[2]>>
       /\ \A i \in DOMAIN img.v :
              img.v[i] = ShownPixel(State, i[1], i[2], i[3])

C18_Witness ==
    /\ _transposed /\ _flipped_x /\ ~_flipped_y
    /\ _mask = <<1, 3, 0, 2>>
    /\ _norm = None /\ _reduce_operation = "None"
    /\ Image(State).v[<<1, 1, 1>>] = _image.v[<<1, 2, 2>>]

\* normalize calls with a complete range and the reference of frame shape
BothArgs ==
    { NormArg(op, <<1, 2>>, Some(0), Some(1), Some(RefGood), force) :
        op \in NormKinds, force \in BOOLEAN }

\* the arguments a without the frame range
WithoutRange(a) == [a EXCEPT !.left = None, !.right = None]

\* C19: given a complete range and a compatible reference, the cache is the
\* raw stack minus (or divided by) the per-pixel mean of the reference,
\* unscaled, and the range has no influence
C19_ReferenceTakesPrecedence ==
    \A a \in BothArgs :
        LET r == NormalizeWith(State, a)
        IN (r.ret /\ r.s.norm_operation = a.operation /\ r.s.norm # None
                /\ ~(_norm_operation = a.operation /\ ~a.force_calculation)) =>
               /\ r.s.norm = NormalizeWith(State, WithoutRange(a)).s.norm
               /\ Get(r.s.norm) =
                      Broadcast(_image, MeanRef(Get(a.reference)), a.operation)

\* the part of C19 that does not mention the raw stack
C19_RangeWithoutInfluence ==
    \A a \in BothArgs :
        NormalizeWith(State, a) = NormalizeWith(State, WithoutRange(a))

\* C20: a rejected call returns a value other than an accepted one: False
\* against True for normalize, and for mask the value of a call rejected for
\* an orientation flag differs from the value of the same call accepted on
\* the instance once reset
C20_RejectionsSignalled ==
    /\ \A a \in NormArgs :
           LET r == NormalizeWith(State, a)
           IN /\ _reduce_operation # "None" => ~r.ret
              /\ (r.s.norm # None /\ r.s.norm # _norm) => r.ret
    /\ MaskRejected(State) =>
           \A roi \in RoisAll :
               mask_ret(State, roi.pos, roi.size)
                   # mask_ret(reset(State), roi.pos, roi.size)


\* normalize calls without a reference and without a complete frame range:
\* neither end, the left end only, the right end only
UnusableArgs ==
    { NormArg(op, <<1, 2>>, lr[1], lr[2], None, force) :
        op \in NormKinds,
        lr \in { <<None, None>>, <<Some(0), None>>, <<None, Some(1)>> },
        force \in BOOLEAN }

\* C21: without a reference and without a complete frame range, with no
\* reduction active and no toggle-off applying, normalize returns False and
\* no normalization operation is marked active afterwards
C21_UnusableReferenceFails ==
    \A a \in UnusableArgs :
        LET r == NormalizeWith(State, a)
        IN (/\ _reduce_operation = "None"
            /\ ~NormTogglesOff(State, a.operation, a.force_calculation)) =>
               ~r.ret /\ r.s.norm_operation = "None"


\* normalize calls that hand over a reference
ReferenceArgs == { a \in NormArgs : a.reference # None }

\* the shape of a single frame of the raw stack
RawFrameShape(s) == <<s.image.shape[2], s.image.shape[3]>>

\* C22: with no reduction active (and no toggle-off applying), a reference is
\* accepted exactly when its per-pixel mean has the shape of a frame of the
\* raw stack, whatever the mask and the orientation flags
C22_ReferenceShapeOfRawFrame ==
    \A a \in ReferenceArgs :
        LET r == NormalizeWith(State, a)
        IN (/\ _reduce_operation = "None"
            /\ ~NormTogglesOff(State, a.operation, a.force_calculation)) =>
               (r.ret <=> MeanRef(Get(a.reference)).shape = RawFrameShape(State))


\* C23: every transpose, flip_x and flip_y call negates its own flag and
\* leaves the other two flags, the mask, the reduction caches, the active
\* reduction, the normalization cache and operation, and the raw stack as
\* they were
C23_OrientationTogglesOwnFlag ==
    [][ /\ last_call' = "transpose" =>
               /\ _transposed' = ~_transposed
               /\ UNCHANGED <<_image, _meta, _min, _max, _mean, _std, _mask,
                              _flipped_x, _flipped_y, _reduce_operation,
                              _norm, _norm_operation>>
        /\ last_call' = "flip_x" =>
               /\ _flipped_x' = ~_flipped_x
               /\ UNCHANGED <<_image, _meta, _min, _max, _mean, _std, _mask,
                              _transposed, _flipped_y, _reduce_operation,
                              _norm, _norm_operation>>
        /\ last_call' = "flip_y" =>
               /\ _flipped_y' = ~_flipped_y
               /\ UNCHANGED <<_image, _meta, _min, _max, _mean, _std, _mask,
                              _transposed, _flipped_x, _reduce_operation,
                              _norm, _norm_operation>>
      ]_vars

C23_Witness ==
    /\ last_call = "flip_y" /\ _flipped_y /\ ~_flipped_x /\ _transposed
    /\ _mask # None /\ _mean # None /\ _norm # None
    /\ _reduce_operation = "mean" /\ _norm_operation = "divide"


\* C24: no call changes the raw stack or the metadata list, so n_images,
\* is_single_image and is_greyscale keep their values over every step, also
\* while a reduction or a mask is active
C24_RawStackImmutable ==
    [][ /\ _image' = _image
        /\ _meta' = _meta
        /\ n_images(State)' = n_images(State)
        /\ is_single_image(State)' = is_single_image(State)
        /\ is_greyscale(State)' = is_greyscale(State)
      ]_vars

C24_Witness ==
    /\ last_call = "mask" /\ _mask # None /\ _reduce_operation = "mean"
    /\ Image(State).shape = <<1, 2, 2>>
    /\ n_images(State) = 2 /\ ~is_single_image(State) /\ is_greyscale(State)
    /\ Len(_meta) = 2


\* the raw stack as the accessor shows it with no reduction and no
\* normalization: masked and oriented as instance s is
RawView(s) == Image([s EXCEPT !.reduce_operation = "None", !.norm = None])

\* C25: with no normalization active, reduce(mean) leaves a current image of
\* exactly one frame whose every pixel is the arithmetic mean of that pixel
\* over all frames of the raw stack, and min and max give the per-pixel
\* minimum and maximum over all frames
C25_ReduceFoldsAllFrames ==
    _norm_operation = "None" =>
        \A kind \in {"mean", "min", "max"} :
            LET img == Image(reduce(State, kind))
                raw == RawView(State)
            IN /\ img.shape = <<1, raw.shape[2], raw.shape[3]>>
               /\ raw.shape[1] = n_images(State)
               /\ \A x \in 1..raw.shape[2], y \in 1..raw.shape[3] :
                      /\ Len(Column(raw, x, y)) = n_images(State)
                      /\ img.v[<<1, x, y>>] = FoldOf(kind, Column(raw, x, y))
               /\ (_mask = None /\ ~_transposed /\ ~_flipped_x /\ ~_flipped_y) =>
                      raw = _image

C25_Witness ==
    /\ last_call = "reduce" /\ _reduce_operation = "mean"
    /\ _norm_operation = "None" /\ _norm = None
    /\ _mask = None /\ ~_transposed /\ ~_flipped_x /\ ~_flipped_y
    /\ Image(State).shape = <<1, 3, 3>>
    /\ Image(State).v[<<1, 2, 3>>] = <<9, 2>>
    /\ _min # None /\ Get(_min).arr.v[<<1, 2, 3>>] = <<2, 1>>


\* normalize calls with a complete frame range or a reference
UsableArgs ==
    { a \in NormArgs : (a.left # None /\ a.right # None) \/ a.reference # None }

\* C26: one normalization operation is in effect and operations do not
\* compound: with one operation active, a successful normalize with the other
\* operation leaves the other operation as the active one, and its cache is
\* the stack without the previous normalization, minus or divided by the
\* reference (the raw stack itself when no mask and no orientation flag is
\* set)
C26_NoCompounding ==
    /\ _norm_operation \in NormKinds \cup {"None"}
    /\ (_mask = None /\ ~_transposed /\ ~_flipped_x /\ ~_flipped_y) =>
           RawView(State) = _image
    /\ \A a \in UsableArgs :
           LET r == NormalizeWith(State, a)
           IN (/\ ~a.force_calculation
               /\ _norm_operation \in NormKinds \ {a.operation}
               /\ r.ret) =>
                  /\ r.s.norm_operation = a.operation
                  /\ r.s.norm # None
                  /\ Get(r.s.norm) = NormOfRaw(RawView(State), a)

C26_Witness ==
    /\ _norm_operation = "subtract" /\ _norm # None
    /\ Get(_norm).v[<<1, 2, 1>>] = <<7, 2>>
    /\ _mask = None /\ ~_transposed /\ ~_flipped_x /\ ~_flipped_y
    /\ LET r == NormalizeWith(State,
                    NormArg("divide", <<1, 2>>, Some(0), Some(1), None, FALSE))
       IN /\ r.ret /\ r.s.norm_operation = "divide"
          /\ Get(r.s.norm).v[<<1, 2, 1>>] = <<10, 3>>


\* the arguments a with force_calculation set to force
WithForce(a, force) == [a EXCEPT !.force_calculation = force]

\* C27: with an operation active, the same operation with force and a
\* complete range or an accepted reference is not a toggle: the cache is
\* computed anew from the arguments of the call and the operation stays
\* active; without force the call switches normalization off, clears the
\* cache and returns True
C27_ForceBypassesToggle ==
    \A a \in UsableArgs :
        (/\ ~a.force_calculation
         /\ _reduce_operation = "None" /\ _norm_operation = a.operation) =>
            LET forced == NormalizeWith(State, WithForce(a, TRUE))
                plain == NormalizeWith(State, WithForce(a, FALSE))
            IN /\ plain.ret
               /\ plain.s.norm = None /\ plain.s.norm_operation = "None"
               /\ a.reference = None => forced.ret
               /\ (a.reference = Some(RefGood) /\ _mask = None) => forced.ret
               /\ forced.s.norm_operation = a.operation
               /\ forced.ret =>
                      forced.s.norm = Some(NormOfRaw(RawView(State), a))

C27_Witness ==
    /\ _norm_operation = "subtract" /\ _norm # None
    /\ Get(_norm).v[<<1, 2, 1>>] = <<7, 2>>
    /\ _mask = None /\ ~_transposed /\ ~_flipped_x /\ ~_flipped_y
    /\ LET a == NormArg("subtract", <<1, 2>>, None, None, Some(RefGood), TRUE)
           forced == NormalizeWith(State, a)
           plain == NormalizeWith(State, WithForce(a, FALSE))
       IN /\ forced.ret /\ forced.s.norm_operation = "subtract"
          /\ Get(forced.s.norm).v[<<1, 2, 1>>] = <<4, 1>>
          /\ plain.ret /\ plain.s.norm = None


\* scale factors offered to normalize in the properties
Betas == { <<1, 2>>, <<2, 1>> }

\* the values of raw pixel (x, y) in the frames left..right, both included
\* (frame indices from 0)
RangeColumn(image, left, right, x, y) ==
    [k \in 1..(right - left + 1) |-> image.v[<<left + k, x, y>>]]

\* C28: with no mask, no orientation flag and no reduction, a range-based
\* normalize with in-bounds left <= right (that is not a toggle-off) makes
\* every pixel of every frame of the current image the raw pixel minus (or
\* divided by) beta times the mean of that pixel over the right-left+1 frames
\* left..right
C28_RangeInclusive ==
    (/\ _reduce_operation = "None" /\ _mask = None
     /\ ~_transposed /\ ~_flipped_x /\ ~_flipped_y) =>
        \A op \in NormKinds, lr \in InBoundsRanges(State),
           beta \in Betas, force \in BOOLEAN :
            LET r == NormalizeWith(State,
                         NormArg(op, beta, lr[1], lr[2], None, force))
                img == Image(r.s)
                left == Get(lr[1])
                right == Get(lr[2])
            IN ~NormTogglesOff(State, op, force) =>
                   /\ r.ret
                   /\ img.shape = _image.shape
                   /\ \A i \in DOMAIN img.v :
                          LET c == RangeColumn(_image, left, right, i[2], i[3])
                              ref == RMul(beta, RMean(c))
                          IN /\ Len(c) = right - left + 1
                             /\ img.v[i] = IF op = "subtract"
                                           THEN RSub(_image.v[i], ref)
                                           ELSE RDiv(_image.v[i], ref)

C28_Witness ==
    /\ last_call = "normalize" /\ last_result = "True"
    /\ _norm_operation = "subtract" /\ _reduce_operation = "None"
    /\ _mask = None /\ ~_transposed /\ ~_flipped_x /\ ~_flipped_y
    /\ Image(State).v[<<1, 2, 1>>] = <<7, 2>>
    /\ Image(State).v[<<2, 2, 1>>] = <<-1, 2>>


\* C29: after an accepted mask the cache entry of every kind other than the
\* active one is empty, and the entry of the active kind is a volume computed
\* by this call, not the array held before it
C29_MaskInvalidatesCaches ==
    ~MaskRejected(State) =>
        \A roi \in RoisAll :
            LET s2 == mask(State, roi.pos, roi.size)
            IN \A kind \in ReduceKinds :
                   /\ kind # _reduce_operation => Cache(s2, kind) = None
                   /\ kind = _reduce_operation =>
                          /\ Cache(s2, kind) # None
                          /\ Cache(s2, kind) # Cache(State, kind)
                          /\ Cache(State, kind) # None =>
                                 Get(Cache(s2, kind)).id # Get(Cache(State, kind)).id
                          /\ Get(Cache(s2, kind)).arr.shape =
                                 <<1, _image.shape[2], _image.shape[3]>>

C29_Witness ==
    /\ last_call = "mask" /\ _mask # None
    /\ _reduce_operation = "max" /\ _max # None /\ Get(_max).id = 1
    /\ _min = None /\ _mean = None /\ _std = None


\* normalize calls by a complete frame range, without a reference
RangeArgs ==
    { a \in NormArgs : a.left # None /\ a.right # None /\ a.reference = None }

\* C30: from a state with no reduction and no normalization, an orientation
\* call followed by a successful range-based normalize shows the same current
\* image as the same normalize followed by the orientation call
C30_OrientationCommutes ==
    (_reduce_operation = "None" /\ _norm_operation = "None" /\ _norm = None) =>
        \A a \in RangeArgs :
            LET after == NormalizeWith(State, a)
                t == NormalizeWith(transpose(State), a)
                fx == NormalizeWith(flip_x(State), a)
                fy == NormalizeWith(flip_y(State), a)
            IN /\ (t.ret /\ after.ret) =>
                      Image(t.s) = Image(transpose(after.s))
               /\ (fx.ret /\ after.ret) =>
                      Image(fx.s) = Image(flip_x(after.s))
               /\ (fy.ret /\ after.ret) =>
                      Image(fy.s) = Image(flip_y(after.s))


\* C31: with a mask active and no reduction, a successful normalize that
\* computes a cache leaves the extent of the current image as it was, and
\* every shown pixel is the normalized value of the raw pixel at the same
\* absolute position
C31_NormalizeKeepsShownPixels ==
    (_mask # None /\ _reduce_operation = "None") =>
        \A a \in RangeArgs :
            LET r == NormalizeWith(State, a)
            IN (/\ r.ret /\ r.s.norm # None
                /\ ~NormTogglesOff(State, a.operation, a.force_calculation)) =>
                   /\ shape(r.s) = shape(State)
                   /\ Image(r.s) =
                          Image([r.s EXCEPT !.norm = Some(NormOfRaw(_image, a))])


\* stored bounds m = <<x_start, x_stop, y_start, y_stop>> that lie in order
\* inside the raw frame of instance s
WellFormed(s, m) ==
    /\ 0 <= m[1] /\ m[1] <= m[2] /\ m[2] <= s.image.shape[2]
    /\ 0 <= m[3] /\ m[3] <= m[4] /\ m[4] <= s.image.shape[3]

\* C32: the stored mask bounds are well formed in every state with a mask,
\* and stay so for every region handed to mask, also regions partly or wholly
\* outside the displayed image or at a negative position
C32_MaskBoundsWellFormed ==
    /\ _mask # None => WellFormed(State, _mask)
    /\ ~MaskRejected(State) =>
           \A roi \in RoisAll :
               WellFormed(State, mask(State, roi.pos, roi.size).mask)


\* C33: the normalization cache is set exactly when an operation is marked
\* active, so a non-forced normalize toggles off only a normalization whose
\* cache exists
C33_CacheMatchesOperation ==
    /\ _norm # None <=> _norm_operation \in NormKinds
    /\ \A op \in NormKinds :
           (_reduce_operation = "None" /\ NormTogglesOff(State, op, FALSE)) =>
               _norm # None


\* C34: whenever one of the four reduction kinds is marked active its cache
\* entry is populated, also right after a mask, so the accessor never yields
\* an absent volume
C34_ActiveReductionCached ==
    /\ _reduce_operation \in ReduceKinds =>
           Cache(State, _reduce_operation) # None
    /\ _reduce_operation \in ReduceKinds \cup {"None"}
    /\ Image(State).shape # NoArray.shape

C34_Witness ==
    /\ last_call = "mask" /\ _mask # None
    /\ _reduce_operation = "min" /\ _min # None
    /\ Image(State).shape = <<1, 2, 2>>
    /\ Image(State).v[<<1, 1, 1>>] = <<1, 1>>


\* C35: from a state with no normalization and no orientation flag,
\* reduce(kind) then mask(r) and mask(r) then reduce(kind) end with the same
\* active reduction, the same mask bounds and the same current image, which
\* is the per-pixel reduction of the raw stack cropped to those bounds
C35_ReduceMaskCommute ==
    (_norm_operation = "None" /\ ~_transposed /\ ~_flipped_x /\ ~_flipped_y) =>
        \A kind \in ReduceKinds, roi \in RoisAll :
            LET a == mask(reduce(State, kind), roi.pos, roi.size)
                b == reduce(mask(State, roi.pos, roi.size), kind)
                crop == SliceMask(_image, a.mask)
                img == Image(a)
            IN /\ a.reduce_operation = kind /\ b.reduce_operation = kind
               /\ a.mask = b.mask
               /\ a.mask = MaskBounds(State, roi.pos, roi.size)
               /\ img = Image(b)
               /\ img.shape = <<1, crop.shape[2], crop.shape[3]>>
               /\ \A x \in 1..crop.shape[2], y \in 1..crop.shape[3] :
                      img.v[<<1, x, y>>] = FoldOf(kind, Column(crop, x, y))

C35_Witness ==
    /\ last_call = "mask" /\ _reduce_operation = "mean"
    /\ _mask = <<1, 3, 1, 3>> /\ _norm = None /\ _norm_operation = "None"
    /\ ~_transposed /\ ~_flipped_x /\ ~_flipped_y
    /\ Image(State).shape = <<1, 2, 2>>
    /\ Image(State).v[<<1, 1, 2>>] = <<9, 2>>
    /\ Image(reduce(mask(reset(State), <<2, 2>>, <<4, 4>>), "mean")) = Image(State)

====
